---- MODULE Spec2Model ----
(***************************************************************************)
(* A model of pickaxe_generic: the generation calculator of metacalc.py    *)
(* with the proposal-then-resolver process that drives it, and the data    *)
(* units of datatypes.py (the restricted unpickler, the operator unit and  *)
(* the reaction unit).                                                     *)
(***************************************************************************)
EXTENDS Integers, Sequences, FiniteSets, TLC

VARIABLES
    rxns,        \* the reactions observed so far (the growing network)
    meta,        \* molecule -> its stored metadata for gen_key
    data,        \* __call__: the evaluated molecule's packet
    reactants,   \* __call__: rxn.reactants, a tuple of packets
    prev_value,  \* __call__: the prev_value argument
    ret,         \* __call__: the returned value
    payload,     \* loads: the bytes handed in, as the opcodes they hold
    outcome,     \* loads: what the call did
    args,        \* RxnDatBasic.__init__: the four arguments, each absent or given
    unit,        \* the data unit constructed
    copy,        \* the data unit constructed from unit.blob
    call_result, \* OpDatBasic.__call__: what the call did
    pc           \* position of the operation under way

genVars == <<rxns, meta>>
callVars == <<data, reactants, prev_value, ret>>
loadVars == <<payload, outcome>>
unitVars == <<args, unit, copy, call_result>>
vars == <<rxns, meta, data, reactants, prev_value, ret, payload, outcome,
          args, unit, copy, call_result, pc>>

-----------------------------------------------------------------------------
(* Bounds of the model. *)

\* largest generation value drawn as an input of a single call
MaxGen == 2
\* longest reactant tuple drawn as an input of a single call
MaxReactants == 2
\* largest number of reactions the network grows to
MaxRxns == 2
\* longest payload drawn as an input of loads
MaxPayload == 4
\* longest products argument drawn as an input of RxnDatBasic
MaxProducts == 1

-----------------------------------------------------------------------------
(* Values. *)

\* Python's None where an Optional[int] is expected
None == -1
\* a packet whose meta is None
MetaNone == -2
\* a packet whose meta is a mapping without gen_key
MetaNoKey == -3

Mols == {"A", "B", "C"}
Seeds == {"A"}

MetaVals == {MetaNone, MetaNoKey} \cup (0..MaxGen)
Packets == [item : Mols, meta : MetaVals]

\* gen_key in packet.meta (and packet.meta is not None)
HasGen(packet) == packet.meta >= 0

Max(a, b) == IF a >= b THEN a ELSE b
\* the resolver, Python's min
resolver(a, b) == IF a <= b THEN a ELSE b

SeqsUpTo(S, n) == UNION {[1..k -> S] : k \in 0..n}

\* a data unit: a reaction, an operator, or the exception its constructor raised
RxnUnit(op, prods, reacts) ==
    [kind |-> "rxn", operator |-> op, products |-> prods, reactants |-> reacts,
     rdkitrxn |-> "", kekulize |-> FALSE, err |-> ""]
OpUnit(rxn, kek) ==
    [kind |-> "op", operator |-> "", products |-> {}, reactants |-> {},
     rdkitrxn |-> rxn, kekulize |-> kek, err |-> ""]
Failed(e) ==
    [kind |-> "error", operator |-> "", products |-> {}, reactants |-> {},
     rdkitrxn |-> "", kekulize |-> FALSE, err |-> e]
NoUnit ==
    [kind |-> "none", operator |-> "", products |-> {}, reactants |-> {},
     rdkitrxn |-> "", kekulize |-> FALSE, err |-> ""]
\* an optional argument is the empty set when it is None, {x} when it is x
NoArgs == [operator |-> {}, reactants |-> {}, products |-> {}, reaction |-> {}]
The(S) == CHOOSE x \in S : TRUE
NoCall == [raised |-> FALSE, exc |-> "", done |-> FALSE]

-----------------------------------------------------------------------------
(* The restricted unpickler: __SafeUnpickler.find_class and loads.  A      *)
(* payload is the sequence of pickle opcodes it holds; the unpickler runs  *)
(* them on a stack and asks find_class for every global they name.         *)

\* the values a load builds
Atom(x) == [k |-> "atom", m |-> "", a |-> x, items |-> <<>>, elems |-> {}]
Cls(mod, name) == [k |-> "class", m |-> mod, a |-> name, items |-> <<>>, elems |-> {}]
Tup(xs) == [k |-> "tuple", m |-> "", a |-> "", items |-> xs, elems |-> {}]
Lst(xs) == [k |-> "list", m |-> "", a |-> "", items |-> xs, elems |-> {}]
FSet(S) == [k |-> "frozenset", m |-> "", a |-> "", items |-> <<>>, elems |-> S]
Inst(mod, name, xs) == [k |-> "inst", m |-> mod, a |-> name, items |-> xs, elems |-> {}]

\* the opcodes
OpAtom(x) == [op |-> "ATOM", m |-> "", a |-> x, n |-> 0]
OpGlobal(mod, name) == [op |-> "GLOBAL", m |-> mod, a |-> name, n |-> 0]
OpTuple(n) == [op |-> "TUPLE", m |-> "", a |-> "", n |-> n]
OpList(n) == [op |-> "LIST", m |-> "", a |-> "", n |-> n]
OpReduce == [op |-> "REDUCE", m |-> "", a |-> "", n |-> 0]
OpStop == [op |-> "STOP", m |-> "", a |-> "", n |-> 0]

_safe_builtins_classes == {"frozenset", "tuple"}

\* find_class as written, but trusting the name alone
find_class_any_module(module, name) ==
    IF name \in _safe_builtins_classes
    THEN [raised |-> FALSE, cls |-> Cls("builtins", name)]
    ELSE [raised |-> TRUE, cls |-> Cls(module, name)]

\* raised: pickle.UnpicklingError("global '<module>.<name>' is forbidden");
\* otherwise cls is getattr(builtins, name)
find_class(module, name) ==
    IF module = "builtins" /\ name \in _safe_builtins_classes
    THEN [raised |-> FALSE, cls |-> Cls("builtins", name)]
    ELSE [raised |-> TRUE, cls |-> Cls(module, name)]

NotLoaded == [status |-> "none", value |-> Atom(""), refs |-> {}, made |-> {},
              forbidden |-> <<>>]
Ended(st, v, refs, made, forb) ==
    [status |-> st, value |-> v, refs |-> refs, made |-> made, forbidden |-> forb]

\* the elements an iterable value yields; some order for a frozenset
RECURSIVE SomeOrder(_)
SomeOrder(S) ==
    IF S = {} THEN <<>> ELSE LET x == CHOOSE y \in S : TRUE IN <<x>> \o SomeOrder(S \ {x})
Range(xs) == {xs[i] : i \in DOMAIN xs}
Iterable(v) == v.k \in {"tuple", "list", "frozenset"}
ItemsOf(v) == IF v.k = "frozenset" THEN SomeOrder(v.elems) ELSE v.items
Hashable(v) == v.k /= "list"

\* func(*args) of REDUCE; ok is FALSE where Python raises TypeError
Construct(func, argt) ==
    IF func.m = "builtins" /\ func.a \in {"tuple", "frozenset"}
    THEN IF Len(argt.items) = 0
         THEN [ok |-> TRUE, v |-> IF func.a = "tuple" THEN Tup(<<>>) ELSE FSet({})]
         ELSE IF Len(argt.items) > 1 \/ ~Iterable(argt.items[1])
         THEN [ok |-> FALSE, v |-> Atom("")]
         ELSE IF func.a = "tuple"
         THEN [ok |-> TRUE, v |-> Tup(ItemsOf(argt.items[1]))]
         ELSE IF \A x \in Range(ItemsOf(argt.items[1])) : Hashable(x)
         THEN [ok |-> TRUE, v |-> FSet(Range(ItemsOf(argt.items[1])))]
         ELSE [ok |-> FALSE, v |-> Atom("")]
    ELSE [ok |-> TRUE, v |-> Inst(func.m, func.a, argt.items)]

\* Unpickler.load from opcode i on: refs are the globals find_class was asked
\* for, made the classes REDUCE called, forbidden the global find_class refused
RECURSIVE Run(_, _, _, _, _)
Run(p, i, stack, refs, made) ==
    LET n == Len(stack)
        err == Ended("error", Atom(""), refs, made, <<>>)
    IN  IF i > Len(p) THEN err
        ELSE LET o == p[i] IN
             CASE o.op = "STOP" ->
                    IF n = 0 THEN err ELSE Ended("returned", stack[n], refs, made, <<>>)
               [] o.op = "ATOM" -> Run(p, i + 1, Append(stack, Atom(o.a)), refs, made)
               [] o.op = "GLOBAL" ->
                    LET f == find_class(o.m, o.a)
                        seen == refs \cup {<<o.m, o.a>>}
                    IN  IF f.raised
                        THEN Ended("forbidden", Atom(""), seen, made, <<o.m, o.a>>)
                        ELSE Run(p, i + 1, Append(stack, f.cls), seen, made)
               [] o.op \in {"TUPLE", "LIST"} ->
                    IF n < o.n THEN err
                    ELSE LET xs == SubSeq(stack, n - o.n + 1, n)
                             v == IF o.op = "TUPLE" THEN Tup(xs) ELSE Lst(xs)
                         IN  Run(p, i + 1, Append(SubSeq(stack, 1, n - o.n), v), refs, made)
               [] o.op = "REDUCE" ->
                    IF n < 2 THEN err
                    ELSE IF stack[n - 1].k /= "class" \/ stack[n].k /= "tuple" THEN err
                    ELSE LET c == Construct(stack[n - 1], stack[n])
                         IN  IF ~c.ok THEN err
                             ELSE Run(p, i + 1, Append(SubSeq(stack, 1, n - 2), c.v), refs,
                                      made \cup {<<stack[n - 1].m, stack[n - 1].a>>})

loads(string_in) == Run(string_in, 1, <<>>, {}, {})

(* loads on drawn payloads. *)

Opcodes ==
    {OpAtom("A"), OpTuple(0), OpTuple(1), OpList(1), OpReduce, OpStop}
    \cup {OpGlobal(mod, name) : mod \in {"builtins", "os"},
                                name \in {"frozenset", "tuple", "object"}}

LoadsInit ==
    /\ payload \in SeqsUpTo(Opcodes, MaxPayload)
    /\ outcome = NotLoaded
    /\ pc = "loads"
    /\ rxns = {}
    /\ meta = [m \in Mols |-> MetaNone]
    /\ data = [item |-> "A", meta |-> MetaNone]
    /\ reactants = <<>>
    /\ prev_value = None
    /\ ret = None
    /\ args = NoArgs
    /\ unit = NoUnit
    /\ copy = NoUnit
    /\ call_result = NoCall

Loads ==
    /\ pc = "loads"
    /\ outcome' = loads(payload)
    /\ pc' = "loaded"
    /\ UNCHANGED <<payload, genVars, callVars, unitVars>>

LoadsNext == Loads

LoadsSpec == LoadsInit /\ [][LoadsNext]_vars

AllowList == {<<"builtins", "frozenset">>, <<"builtins", "tuple">>}

\* C6: a load whose reconstruction names a global other than
\* builtins.frozenset and builtins.tuple raises the forbidden-global error
\* for it, returns no value and has called no such global; an allow-listed
\* name under another module is refused like any other.  In particular a
\* payload that names such a global after nothing but atoms and allow-listed
\* globals ends in that error.
ForbiddenPayloadRejected ==
    pc = "loaded" =>
        /\ \A g \in outcome.refs \ AllowList :
              outcome.status = "forbidden" /\ outcome.forbidden = g
        /\ outcome.status = "returned" => outcome.refs \subseteq AllowList
        /\ outcome.made \subseteq AllowList
        /\ \A i \in 1..Len(payload) :
              (/\ payload[i].op = "GLOBAL"
               /\ <<payload[i].m, payload[i].a>> \notin AllowList
               /\ \A j \in 1..(i - 1) :
                     \/ payload[j].op = "ATOM"
                     \/ /\ payload[j].op = "GLOBAL"
                        /\ <<payload[j].m, payload[j].a>> \in AllowList)
              => outcome.status = "forbidden"

\* builtins.tuple was made, and then os.tuple was refused
ForbiddenPayloadSeen ==
    /\ pc = "loaded"
    /\ payload = <<OpGlobal("builtins", "tuple"), OpTuple(0), OpReduce,
                   OpGlobal("os", "tuple")>>
    /\ outcome.status = "forbidden"
    /\ outcome.forbidden = <<"os", "tuple">>
    /\ outcome.made = {<<"builtins", "tuple">>}

-----------------------------------------------------------------------------
(* RxnDatBasic and OpDatBasic. *)

OperatorIds == {"op", "op2"}

\* the order of the identifiers (strings, compared as Python compares them)
IdOrder == <<"A", "B", "C">>
Rank(x) == CHOOSE i \in 1..Len(IdOrder) : IdOrder[i] = x

\* sorted(S)
RECURSIVE sorted(_)
sorted(S) ==
    IF S = {} THEN <<>>
    ELSE LET x == CHOOSE y \in S : \A z \in S : Rank(y) <= Rank(z)
         IN  <<x>> \o sorted(S \ {x})

\* pickle.dumps of a frozenset of identifiers: frozenset, applied to their list
DumpFrozenset(S) ==
    <<OpGlobal("builtins", "frozenset")>>
    \o [i \in 1..Cardinality(S) |-> OpAtom(SomeOrder(S)[i])]
    \o <<OpList(Cardinality(S)), OpTuple(1), OpReduce>>

\* RxnDatBasic.blob: pickle.dumps((operator, products, reactants))
RxnBlob(u) ==
    <<OpAtom(u.operator)>> \o DumpFrozenset(u.products) \o DumpFrozenset(u.reactants)
    \o <<OpTuple(3), OpStop>>

\* the reaction branch of RxnDatBasic.__init__: data = loads(reaction)
RxnFromData(out) ==
    IF out.status /= "returned" THEN Failed("UnpicklingError")
    ELSE LET d == out.value IN
         IF d.k \notin {"tuple", "list"} \/ Len(d.items) < 3 THEN Failed("TypeError")
         ELSE IF ~Iterable(d.items[2]) \/ ~Iterable(d.items[3]) THEN Failed("TypeError")
         ELSE RxnUnit(d.items[1].a,
                      {x.a : x \in Range(ItemsOf(d.items[2]))},
                      {x.a : x \in Range(ItemsOf(d.items[3]))})

\* as RxnDatBasic.__init__, but the explicit form is taken without looking at
\* products, and frozenset(None) raises
RxnInitNoProductsTest(operator, reacts, products, reaction) ==
    IF reaction /= {} THEN RxnFromData(loads(The(reaction)))
    ELSE IF operator /= {} /\ reacts /= {}
    THEN IF products = {} THEN Failed("'NoneType' object is not iterable")
         ELSE RxnUnit(The(operator), Range(The(products)), Range(The(reacts)))
    ELSE Failed("Insufficient arguments provided")

\* RxnDatBasic.__init__
RxnInit(operator, reacts, products, reaction) ==
    IF reaction /= {} THEN RxnFromData(loads(The(reaction)))
    ELSE IF operator /= {} /\ reacts /= {} /\ products /= {}
    THEN RxnUnit(The(operator), Range(The(products)), Range(The(reacts)))
    ELSE Failed("Insufficient arguments provided")

\* as RxnDatBasic.uid, but without the operator
RxnUidNoOperator(u) == <<"", sorted(u.products), sorted(u.reactants)>>

\* RxnDatBasic.uid
RxnUid(u) == <<u.operator, sorted(u.products), sorted(u.reactants)>>

\* the chemistry engine's templates, and the SMARTS strings it reads and writes
Templates == {"T1", "T2"}
SmartsInputs == {"s1", "s1'", "s2"}
ReactionFromSmarts(smarts) == IF smarts = "s2" THEN "T2" ELSE "T1"
ReactionToSmarts(template) == IF template = "T2" THEN "s2" ELSE "s1"

\* what OpDatBasic.__init__ is given as operator
OperatorInputs ==
    [type : {"ChemicalReaction"}, tmpl : Templates, smarts : {""}, blob : {<<>>}]
    \cup [type : {"str"}, tmpl : {""}, smarts : SmartsInputs, blob : {<<>>}]
    \cup [type : {"other"}, tmpl : {""}, smarts : {""}, blob : {<<>>}]

\* OpDatBasic.blob: pickle.dumps((rdkitrxn, kekulize)); the template object
\* is pickled as its class applied to its binary form
OpBlob(u) ==
    <<OpGlobal("rdkit.Chem.rdChemReactions", "ChemicalReaction"), OpAtom(u.rdkitrxn),
      OpTuple(1), OpReduce, OpAtom(IF u.kekulize THEN "True" ELSE "False"),
      OpTuple(2), OpStop>>

\* the bytes branch of OpDatBasic.__init__:
\* self._rdkitrxn, self._kekulize = loads(operator)
OpFromData(out) ==
    IF out.status /= "returned" THEN Failed("UnpicklingError")
    ELSE LET d == out.value IN
         IF ~Iterable(d) \/ Len(ItemsOf(d)) /= 2 THEN Failed("ValueError")
         ELSE IF d.items[1].k /= "inst" \/ Len(d.items[1].items) /= 1
         THEN OpUnit("", d.items[2].a = "True")
         ELSE OpUnit(d.items[1].items[1].a, d.items[2].a = "True")

\* OpDatBasic.__init__
OpInit(operator, kekulize_before_operation) ==
    CASE operator.type = "ChemicalReaction" ->
            OpUnit(operator.tmpl, kekulize_before_operation)
      [] operator.type = "str" ->
            OpUnit(ReactionFromSmarts(operator.smarts), kekulize_before_operation)
      [] operator.type = "bytes" -> OpFromData(loads(operator.blob))
      [] OTHER -> Failed("NotImplementedError")

\* OpDatBasic.uid
OpUid(u) == ReactionToSmarts(u.rdkitrxn)

EngineErrors == {"AtomValenceException", "KekulizeException"}
Returned == [raised |-> FALSE, exc |-> "", done |-> TRUE]
Raised(e) == [raised |-> TRUE, exc |-> e, done |-> TRUE]

\* OpDatBasic.__call__: kekulize is "ok" or the engine error Kekulize raises on
\* a reactant, run is "ok" or the engine error raised while the template runs
\* and the products are wrapped
OpCall(u, kekulize, run) ==
    IF u.kekulize /\ kekulize /= "ok" THEN Raised(kekulize)
    ELSE IF run \in {"AtomValenceException", "KekulizeException"} THEN Raised("ValueError")
    ELSE Returned

(* Units are constructed, constructed again from their blob, and operators *)
(* are applied.                                                            *)

SampleBlobs ==
    {RxnBlob(RxnUnit("op", {"B"}, {"A"})),
     RxnBlob(RxnUnit("op2", {"C"}, {"A", "B"})),
     <<OpGlobal("builtins", "object"), OpTuple(0), OpReduce, OpStop>>}

Optional(S) == {{}} \cup {{x} : x \in S}

RxnArgs ==
    [operator : Optional(OperatorIds),
     reactants : Optional(SeqsUpTo(Mols, MaxReactants)),
     products : Optional(SeqsUpTo(Mols, MaxProducts)),
     reaction : Optional(SampleBlobs)]

UnitInit ==
    /\ pc = "start"
    /\ args = NoArgs
    /\ unit = NoUnit
    /\ copy = NoUnit
    /\ call_result = NoCall
    /\ payload = <<>>
    /\ outcome = NotLoaded
    /\ rxns = {}
    /\ meta = [m \in Mols |-> MetaNone]
    /\ data = [item |-> "A", meta |-> MetaNone]
    /\ reactants = <<>>
    /\ prev_value = None
    /\ ret = None

RxnNew(a) ==
    /\ pc = "start"
    /\ args' = a
    /\ unit' = RxnInit(a.operator, a.reactants, a.products, a.reaction)
    /\ pc' = "rxn_built"
    /\ UNCHANGED <<copy, call_result, genVars, callVars, loadVars>>

RxnFromBlob ==
    /\ pc = "rxn_built"
    /\ unit.kind = "rxn"
    /\ copy' = RxnInit({}, {}, {}, {RxnBlob(unit)})
    /\ pc' = "rxn_rebuilt"
    /\ UNCHANGED <<args, unit, call_result, genVars, callVars, loadVars>>

OpNew(operator, kek) ==
    /\ pc = "start"
    /\ unit' = OpInit(operator, kek)
    /\ pc' = "op_built"
    /\ UNCHANGED <<args, copy, call_result, genVars, callVars, loadVars>>

OpFromBlob ==
    /\ pc = "op_built"
    /\ unit.kind = "op"
    /\ copy' = OpInit([type |-> "bytes", tmpl |-> "", smarts |-> "", blob |-> OpBlob(unit)],
                      FALSE)
    /\ pc' = "op_rebuilt"
    /\ UNCHANGED <<args, unit, call_result, genVars, callVars, loadVars>>

OpApply(kekulize, run) ==
    /\ pc = "op_built"
    /\ unit.kind = "op"
    /\ call_result' = OpCall(unit, kekulize, run)
    /\ pc' = "op_called"
    /\ UNCHANGED <<args, unit, copy, genVars, callVars, loadVars>>

UnitNext ==
    \/ \E a \in RxnArgs : RxnNew(a)
    \/ RxnFromBlob
    \/ \E operator \in OperatorInputs, kek \in BOOLEAN : OpNew(operator, kek)
    \/ OpFromBlob
    \/ \E kekulize \in {"ok", "KekulizeException"},
          run \in {"ok"} \cup EngineErrors : OpApply(kekulize, run)

UnitSpec == UnitInit /\ [][UnitNext]_vars

(* Properties of the data units. *)

ExplicitForm(a) == a.operator /= {} /\ a.reactants /= {} /\ a.products /= {}

BlobRoundTrip ==
    /\ pc = "rxn_rebuilt" =>
          /\ copy.kind = "rxn"
          /\ RxnUid(copy) = RxnUid(unit)
          /\ copy.products = unit.products
          /\ copy.reactants = unit.reactants
    /\ pc = "op_rebuilt" =>
          /\ copy.kind = "op"
          /\ OpUid(copy) = OpUid(unit)
          /\ copy.kekulize = unit.kekulize

\* C9: applying an operator, with or without kekulization, either returns or
\* raises the one domain-level error; no engine exception leaves the call.
OperatorFailureBoundary ==
    pc = "op_called" => (call_result.raised => call_result.exc = "ValueError")

ExactlyOneForm(a) ==
    \/ ExplicitForm(a) /\ a.reaction = {}
    \/ a.reaction /= {} /\ a.operator = {} /\ a.reactants = {} /\ a.products = {}

\* C10 as stated: construction succeeds only when exactly one form is given,
\* the complete triple or the blob, and every other combination of the four
\* arguments fails with "Insufficient arguments provided".
ExactlyOneFormOrInsufficient ==
    pc = "rxn_built" =>
        /\ unit.kind = "rxn" => ExactlyOneForm(args)
        /\ ~ExactlyOneForm(args) =>
              unit.kind = "error" /\ unit.err = "Insufficient arguments provided"

\* C10 amended: construction succeeds only when the complete triple or a
\* blob is given; without a blob it succeeds with the complete triple and
\* fails with "Insufficient arguments provided", creating no unit, otherwise;
\* with a blob the explicit arguments are ignored.
ConstructionForms ==
    pc = "rxn_built" =>
        /\ unit.kind = "rxn" => (ExplicitForm(args) \/ args.reaction /= {})
        /\ (args.reaction = {} /\ ExplicitForm(args)) => unit.kind = "rxn"
        /\ (args.reaction = {} /\ ~ExplicitForm(args)) =>
              unit.kind = "error" /\ unit.err = "Insufficient arguments provided"
        /\ args.reaction /= {} => unit = RxnInit({}, {}, {}, args.reaction)

\* operator and reactants were given without products, and nothing was built
InsufficientSeen ==
    /\ pc = "rxn_built"
    /\ args.operator /= {}
    /\ args.reactants /= {}
    /\ args.products = {}
    /\ args.reaction = {}
    /\ unit.kind = "error"
    /\ unit.err = "Insufficient arguments provided"

-----------------------------------------------------------------------------
(* GenerationCalculator.__call__ *)

\* as ReactantLoop, but a reactant without a generation ends the call only when
\* it is the first one; later ones are passed over
RECURSIVE ReactantLoopFirstOnly(_, _, _)
ReactantLoopFirstOnly(rs, i, cur_gen) ==
    IF i > Len(rs) THEN [done |-> FALSE, cur |-> cur_gen]
    ELSE IF ~HasGen(rs[i])
         THEN IF cur_gen = None THEN [done |-> TRUE, cur |-> None]
              ELSE ReactantLoopFirstOnly(rs, i + 1, cur_gen)
    ELSE LET first == IF cur_gen = None THEN rs[i].meta + 1 ELSE cur_gen
         IN  ReactantLoopFirstOnly(rs, i + 1, Max(first, rs[i].meta + 1))

\* as ReactantLoop, but taking the smallest reactant generation
RECURSIVE ReactantLoopMin(_, _, _)
ReactantLoopMin(rs, i, cur_gen) ==
    IF i > Len(rs) THEN [done |-> FALSE, cur |-> cur_gen]
    ELSE IF ~HasGen(rs[i]) THEN [done |-> TRUE, cur |-> None]
    ELSE LET first == IF cur_gen = None THEN rs[i].meta + 1 ELSE cur_gen
         IN  ReactantLoopMin(rs, i + 1, resolver(first, rs[i].meta + 1))

\* as ReactantLoop, but a later reactant counts without the added step
RECURSIVE ReactantLoopNoIncrement(_, _, _)
ReactantLoopNoIncrement(rs, i, cur_gen) ==
    IF i > Len(rs) THEN [done |-> FALSE, cur |-> cur_gen]
    ELSE IF ~HasGen(rs[i]) THEN [done |-> TRUE, cur |-> None]
    ELSE LET first == IF cur_gen = None THEN rs[i].meta + 1 ELSE cur_gen
         IN  ReactantLoopNoIncrement(rs, i + 1, Max(first, rs[i].meta))

\* the for loop over rxn.reactants: done is TRUE when the loop returned None
\* from inside, cur is cur_gen after the last iteration otherwise
RECURSIVE ReactantLoop(_, _, _)
ReactantLoop(rs, i, cur_gen) ==
    IF i > Len(rs) THEN [done |-> FALSE, cur |-> cur_gen]
    ELSE IF ~HasGen(rs[i]) THEN [done |-> TRUE, cur |-> None]
    ELSE LET first == IF cur_gen = None THEN rs[i].meta + 1 ELSE cur_gen
         IN  ReactantLoop(rs, i + 1, Max(first, rs[i].meta + 1))

\* as GenCall, but a stored generation equal to the candidate does not stop it
GenCallStoredLt(d, rs, prev) ==
    IF \E i \in 1..Len(rs) : rs[i] = d THEN None
    ELSE LET loop == ReactantLoop(rs, 1, None)
             cur_gen == loop.cur
         IN  IF loop.done THEN None
             ELSE IF cur_gen = None THEN None
             ELSE IF prev /= None /\ prev < cur_gen THEN None
             ELSE IF HasGen(d) /\ d.meta < cur_gen THEN None
             ELSE cur_gen

\* GenerationCalculator.__call__(data, rxn, prev_value), rs being rxn.reactants
GenCall(d, rs, prev) ==
    IF \E i \in 1..Len(rs) : rs[i] = d THEN None
    ELSE LET loop == ReactantLoop(rs, 1, None)
             cur_gen == loop.cur
         IN  IF loop.done THEN None
             ELSE IF cur_gen = None THEN None
             ELSE IF prev /= None /\ prev < cur_gen THEN None
             ELSE IF HasGen(d) /\ d.meta <= cur_gen THEN None
             ELSE cur_gen

-----------------------------------------------------------------------------
(* A single call of the calculator on drawn inputs. *)

\* the packets of one call are snapshots of the same moment: a molecule has the
\* same metadata wherever it occurs
SameSnapshot(d, rs) ==
    LET ps == {d} \cup {rs[i] : i \in 1..Len(rs)}
    IN  \A x, y \in ps : x.item = y.item => x.meta = y.meta

CallInit ==
    /\ data \in Packets
    /\ reactants \in SeqsUpTo(Packets, MaxReactants)
    /\ SameSnapshot(data, reactants)
    /\ prev_value \in {None} \cup (0..MaxGen + 1)
    /\ ret = None
    /\ pc = "call"
    /\ rxns = {}
    /\ meta = [m \in Mols |-> MetaNone]
    /\ payload = <<>>
    /\ outcome = NotLoaded
    /\ args = NoArgs
    /\ unit = NoUnit
    /\ copy = NoUnit
    /\ call_result = NoCall

Call ==
    /\ pc = "call"
    /\ ret' = GenCall(data, reactants, prev_value)
    /\ pc' = "returned"
    /\ UNCHANGED <<data, reactants, prev_value, genVars, loadVars, unitVars>>

CallNext == Call

CallSpec == CallInit /\ [][CallNext]_vars

(* Properties of a single call. *)

Unresolved(packet) == packet.meta \in {MetaNone, MetaNoKey}
AllCarryGen(rs) == \A i \in 1..Len(rs) : rs[i].meta \in Nat
ItemAmong(d, rs) == \E i \in 1..Len(rs) : rs[i].item = d.item
\* 1 + max(reactant generations), for a non-empty tuple of resolved reactants
Candidate(rs) ==
    1 + (CHOOSE g \in 0..MaxGen + 1 :
            /\ \E i \in 1..Len(rs) : rs[i].meta = g
            /\ \A i \in 1..Len(rs) : rs[i].meta <= g)

\* C3: a call on a reaction with a reactant that has no metadata mapping, or a
\* mapping without the generation key, returns None whatever the evaluated
\* molecule, prev_value, the position of that reactant and the generations of
\* the others are, and leaves the packets of the molecule and of the reactants
\* as they were.
IncompleteInputNoOp ==
    [][(pc = "call" /\ \E i \in 1..Len(reactants) : Unresolved(reactants[i]))
         => (ret' = None /\ data' = data /\ reactants' = reactants)]_vars

\* the unresolved reactant comes last, after a resolved one
IncompleteInputSeen ==
    /\ pc = "returned"
    /\ Len(reactants) = 2
    /\ reactants[1].meta \in Nat
    /\ Unresolved(reactants[2])
    /\ ~ItemAmong(data, reactants)
    /\ ret = None

\* C4: with every reactant carrying a generation and candidate
\* c = 1 + max(reactant generations), a previously accepted value (prev_value,
\* or the generation stored in the evaluated molecule's snapshot) that is
\* smaller than or equal to c makes the call return None.
NoUpdateWhenAcceptedLeqCandidate ==
    (/\ pc = "returned"
     /\ Len(reactants) > 0
     /\ AllCarryGen(reactants)
     /\ \/ prev_value /= None /\ prev_value <= Candidate(reactants)
        \/ data.meta \in Nat /\ data.meta <= Candidate(reactants))
    => ret = None

\* C5 as stated: for an evaluated molecule that is no reactant, and a non-empty
\* tuple of reactants that all carry a generation, the call returns the
\* candidate when there is neither a stored generation nor a prev_value, or
\* when the stored generation exceeds the candidate.
CandidateAcceptedAsStated ==
    (/\ pc = "returned"
     /\ ~ItemAmong(data, reactants)
     /\ Len(reactants) > 0
     /\ AllCarryGen(reactants)
     /\ \/ Unresolved(data) /\ prev_value = None
        \/ data.meta \in Nat /\ data.meta > Candidate(reactants))
    => ret = Candidate(reactants)

\* C5 amended: as above, but a stored generation above the candidate makes the
\* call return the candidate only when prev_value is absent or also above the
\* candidate.
CandidateAccepted ==
    (/\ pc = "returned"
     /\ ~ItemAmong(data, reactants)
     /\ Len(reactants) > 0
     /\ AllCarryGen(reactants)
     /\ \/ Unresolved(data) /\ prev_value = None
        \/ /\ data.meta \in Nat /\ data.meta > Candidate(reactants)
           /\ prev_value = None \/ prev_value > Candidate(reactants))
    => ret = Candidate(reactants)

\* R2({A, B} -> {C}) with A at 0 and B at 1 has yielded 2 for C
CandidateAcceptedSeen ==
    /\ pc = "returned"
    /\ data = [item |-> "C", meta |-> MetaNone]
    /\ reactants = <<[item |-> "A", meta |-> 0], [item |-> "B", meta |-> 1]>>
    /\ prev_value = None
    /\ ret = 2

-----------------------------------------------------------------------------
(* The proposal-then-resolver process: reactions are observed one by one   *)
(* and delivered, again and again and in any order, to the calculator; a   *)
(* returned value is merged into the molecule's stored generation.         *)

RxnUniverse == [reactants : SUBSET Mols \ {{}}, products : SUBSET Mols \ {{}}]

\* the orders in which the reactants of a reaction can be enumerated
Orders(S) ==
    {f \in [1..Cardinality(S) -> S] : \A i, j \in DOMAIN f : f[i] = f[j] => i = j}

PacketOf(mt, m) == [item |-> m, meta |-> mt[m]]
ReactantPackets(mt, order) == [i \in DOMAIN order |-> PacketOf(mt, order[i])]

\* the stored generation after a call returned v for molecule p
Merge(mt, p, v) ==
    IF v = None THEN mt
    ELSE [mt EXCEPT ![p] = IF mt[p] >= 0 THEN resolver(mt[p], v) ELSE v]

\* the seeds are at generation 0; of the other molecules B has no metadata
\* mapping yet and C has one without gen_key
GenInit ==
    /\ rxns = {}
    /\ meta = [m \in Mols |-> IF m \in Seeds THEN 0
                             ELSE IF m = "B" THEN MetaNone ELSE MetaNoKey]
    /\ data = [item |-> "A", meta |-> MetaNone]
    /\ reactants = <<>>
    /\ prev_value = None
    /\ ret = None
    /\ pc = "driver"
    /\ payload = <<>>
    /\ outcome = NotLoaded
    /\ args = NoArgs
    /\ unit = NoUnit
    /\ copy = NoUnit
    /\ call_result = NoCall

Observe(r) ==
    /\ pc = "driver"
    /\ r \notin rxns
    /\ Cardinality(rxns) < MaxRxns
    /\ rxns' = rxns \cup {r}
    /\ UNCHANGED <<meta, callVars, loadVars, unitVars, pc>>

Deliver(r, p, prev) ==
    /\ pc = "driver"
    /\ r \in rxns
    /\ p \in r.products
    /\ \E order \in Orders(r.reactants) :
          meta' = Merge(meta, p,
                        GenCall(PacketOf(meta, p), ReactantPackets(meta, order), prev))
    /\ UNCHANGED <<rxns, callVars, loadVars, unitVars, pc>>

\* prev_value is whatever the caller passes
DeliverAnyPrev(r, p) == \E prev \in {None} \cup (0..MaxGen + 1) : Deliver(r, p, prev)

\* prev_value is absent, or the value stored for the molecule
DeliverStoredPrev(r, p) ==
    \E prev \in {None} \cup ({meta[p]} \cap Nat) : Deliver(r, p, prev)

GenNext ==
    \/ \E r \in RxnUniverse : Observe(r)
    \/ \E r \in rxns : \E p \in r.products : DeliverAnyPrev(r, p)

GenSpec == GenInit /\ [][GenNext]_vars

DriverNext ==
    \/ \E r \in RxnUniverse : Observe(r)
    \/ \E r \in rxns : \E p \in r.products : DeliverStoredPrev(r, p)

\* the deliveries of the reactions with reactants R, for their product p: a
\* call reads nothing else of the reaction
DeliverEdge(R, p) ==
    \E r \in rxns : r.reactants = R /\ DeliverStoredPrev(r, p)

\* every reaction is delivered again and again, for each of its products.
\* Reactions are never removed, so this follows from weak fairness of the
\* deliveries of each single reaction.
GenFairSpec ==
    /\ GenInit
    /\ [][DriverNext]_vars
    /\ \A R \in SUBSET Mols \ {{}}, p \in Mols : WF_vars(DeliverEdge(R, p))

(* Properties of the process. *)

\* "no generation yet", above every generation
Inf == 2 * Cardinality(Mols)
GenFuns == [Mols -> (0..Cardinality(Mols)) \cup {Inf}]
Succ(x) == IF x = Inf THEN Inf ELSE x + 1
MaxOf(S) == CHOOSE x \in S : \A y \in S : y <= x
MinOf(S) == IF S = {} THEN Inf ELSE CHOOSE x \in S : \A y \in S : x <= y

\* g solves gen(m) = min over the reactions producing m of
\* 1 + max of the reactant generations, with the seeds at 0
IsGenSolution(g, R) ==
    \A m \in Mols :
        g[m] = IF m \in Seeds THEN 0
               ELSE MinOf({Succ(MaxOf({g[x] : x \in r.reactants})) :
                              r \in {q \in R : m \in q.products}})

LeastGen(R) ==
    LET sols == {g \in GenFuns : IsGenSolution(g, R)}
    IN  CHOOSE g \in sols : \A h \in sols : \A m \in Mols : g[m] <= h[m]

StoredGen(mt) == [m \in Mols |-> IF mt[m] \in Nat THEN mt[m] ELSE Inf]

\* one round of deliveries in dependency order: every reaction whose reactants
\* all have their generation is delivered for each of its products
DepRound(R, mt) ==
    [m \in Mols |->
        LET props == {GenCall(PacketOf(mt, m),
                              ReactantPackets(mt, CHOOSE o \in Orders(r.reactants) : TRUE),
                              None) : r \in {q \in R : m \in q.products}} \ {None}
        IN  IF props = {} THEN mt[m]
            ELSE IF mt[m] \in Nat THEN resolver(mt[m], MinOf(props))
            ELSE MinOf(props)]

RECURSIVE DepRounds(_, _, _)
DepRounds(R, mt, k) == IF k = 0 THEN mt ELSE DepRounds(R, DepRound(R, mt), k - 1)

DependencyOrderGen(R) ==
    StoredGen(DepRounds(R, [m \in Mols |-> IF m \in Seeds THEN 0 ELSE MetaNone],
                        Cardinality(Mols)))

\* no call the driver can make returns an update
Quiescent ==
    \A r \in rxns : \A p \in r.products : \A order \in Orders(r.reactants) :
        GenCall(PacketOf(meta, p), ReactantPackets(meta, order), None) = None

Settled ==
    /\ StoredGen(meta) = LeastGen(rxns)
    /\ StoredGen(meta) = DependencyOrderGen(rxns)

\* C1: under fair re-delivery of every reaction the process reaches, and
\* stays in, a state where no call returns an update; whenever no call returns
\* an update, the stored generations are the least solution of
\* gen(m) = min over the reactions producing m of 1 + max(reactant generations)
\* and are those of a delivery in dependency order, whatever the order of the
\* deliveries was.
ConvergesToLeastGen == [](Quiescent => Settled) /\ <>[]Quiescent

\* both reactions are in, delivered in some order, and a chain of two settled
ConvergedSeen ==
    /\ Cardinality(rxns) = 2
    /\ Quiescent
    /\ meta["B"] = 1
    /\ meta["C"] = 2

\* C2: a stored generation never grows and never disappears, and in every
\* reachable state every value a call can return for a molecule with stored
\* generation g is strictly smaller than g.
GenerationNeverRegresses ==
    /\ [][\A m \in Mols : meta[m] \in Nat => (meta'[m] \in Nat /\ meta'[m] <= meta[m])]_vars
    /\ [](\A r \in rxns : \A p \in Mols : \A order \in Orders(r.reactants) :
            \A prev \in {None} \cup (0..MaxGen + 1) :
              LET v == GenCall(PacketOf(meta, p), ReactantPackets(meta, order), prev)
              IN  (meta[p] \in Nat /\ v /= None) => v < meta[p])

\* C is stored at 2, through B, and the reaction from A alone now proposes 1
LowerProposalSeen ==
    /\ meta["B"] = 1
    /\ meta["C"] = 2
    /\ \E r \in rxns :
          /\ "C" \in r.products
          /\ r.reactants = {"A"}
          /\ GenCall(PacketOf(meta, "C"), <<PacketOf(meta, "A")>>, None) = 1

====
